---- MODULE Spec2Model ----
(***************************************************************************)
(* Model of parse_lesson_sections (the section parser shared by the        *)
(* applications of this repository) and of the reconstruction of the       *)
(* lesson text from the parsed sections done by display_lesson_plan_edit,  *)
(* with the session state and the handlers of main of the lesson-plan      *)
(* application (src/unnamed/part_000).                                     *)
(* The parser of src/streamlit_app.py (lines 222-243) is the same code as  *)
(* the one of src/unnamed/part_000 (lines 112-134), which is modelled.     *)
(*                                                                         *)
(* A string is a sequence of tokens.  A token is the newline, a blank, a   *)
(* word that holds no header, or one of the nine header strings, so that   *)
(* "header in line" is the presence of a header token in the line.         *)
(***************************************************************************)
EXTENDS Naturals, Sequences, FiniteSets

VARIABLES content, lines, i, sections, current_section, current_content,
          pc, parsed, round,
          current_lesson, generated_lessons, current_view,
          generate_outcome, regenerate_outcome, edit

\* The session state of main, the outcome of the last press of each of the
\* two generation buttons, and the last edit made in the edit view.
app == <<current_lesson, generated_lessons, current_view,
         generate_outcome, regenerate_outcome, edit>>

vars == <<content, lines, i, sections, current_section, current_content,
          pc, parsed, round, app>>

(* ------------------------------ bounds --------------------------------- *)

\* Longest input, in lines, of the enumerated inputs.
MaxLines == 4

\* Number of reconstruct-and-reparse round trips followed after a parse.
MaxRounds == 2

(* ------------------------------ strings -------------------------------- *)

NL == "\n"

SP == " "

\* The header list of the any(...) test, in the order of the source.
SECTION_HEADERS ==
    << "Overview:", "Learning Objectives:", "Required Materials:",
       "Preparation Steps:", "Lesson Procedure:",
       "Extensions and Modifications:", "Assessment Criteria:",
       "Safety Considerations:", "Take-Home Connection:" >>

\* str.strip() with no argument removes whitespace, the newline included.
IsSpace(c) == c \in {SP, NL}

RECURSIVE LStrip(_)
LStrip(s) ==
    IF s = <<>> THEN <<>>
    ELSE IF IsSpace(Head(s)) THEN LStrip(Tail(s))
    ELSE s

RECURSIVE RStrip(_)
RStrip(s) ==
    IF s = <<>> THEN <<>>
    ELSE IF IsSpace(s[Len(s)]) THEN RStrip(SubSeq(s, 1, Len(s) - 1))
    ELSE s

\* s.strip()
Strip(s) == RStrip(LStrip(s))

\* content.split('\n'): one more piece than there are newlines; "" gives [""].
RECURSIVE SplitFrom(_, _)
SplitFrom(s, acc) ==
    IF s = <<>> THEN <<acc>>
    ELSE IF Head(s) = NL THEN <<acc>> \o SplitFrom(Tail(s), <<>>)
    ELSE SplitFrom(Tail(s), Append(acc, Head(s)))

Split(s) == SplitFrom(s, <<>>)

\* '\n'.join(ls)
RECURSIVE Join(_)
Join(ls) ==
    IF ls = <<>> THEN <<>>
    ELSE IF Len(ls) = 1 THEN ls[1]
    ELSE ls[1] \o <<NL>> \o Join(Tail(ls))

\* A plausible slip: the header must be the whole (trimmed) line.
HeaderEqualsLine(line) ==
    \E h \in DOMAIN SECTION_HEADERS : Strip(line) = <<SECTION_HEADERS[h]>>

\* A plausible slip: the match ignores case.
HeaderAnyCase(line) ==
    \E k \in DOMAIN line :
        \/ \E h \in DOMAIN SECTION_HEADERS : line[k] = SECTION_HEADERS[h]
        \/ line[k] = "overview:"

\* A plausible slip: the last header is missing from the list.
HeaderListShort(line) ==
    \E h \in 1..(Len(SECTION_HEADERS) - 1) :
        \E k \in DOMAIN line : line[k] = SECTION_HEADERS[h]

\* any(section in line for section in [...]): case-sensitive substring test.
IsHeaderLine(line) ==
    \E h \in DOMAIN SECTION_HEADERS :
        \E k \in DOMAIN line : line[k] = SECTION_HEADERS[h]

(* --------------------------- the sections dict ------------------------- *)

\* A dict is the sequence of its items in insertion order.
Keys(d) == { d[k].key : k \in DOMAIN d }

KeyIndex(d, key) == CHOOSE k \in DOMAIN d : d[k].key = key

Value(d, key) == d[KeyIndex(d, key)].value

\* A plausible slip: an overwritten key moves to the end.
DictSetMoveToEnd(d, key, value) ==
    Append(SelectSeq(d, LAMBDA e : e.key /= key), [key |-> key, value |-> value])

\* A plausible slip: an existing key keeps its first value (setdefault).
DictSetKeepFirst(d, key, value) ==
    IF key \in Keys(d) THEN d ELSE Append(d, [key |-> key, value |-> value])

\* d[key] = value: a new key is appended, an old key keeps its place.
DictSet(d, key, value) ==
    IF key \in Keys(d)
    THEN [d EXCEPT ![KeyIndex(d, key)].value = value]
    ELSE Append(d, [key |-> key, value |-> value])

(* --------------------------- optional label ---------------------------- *)

\* current_section is None, or <<label>>.
None == <<>>

\* Truth value of current_section: None and "" are false.
Truthy(cs) == cs /= None /\ cs[1] /= <<>>

\* '\n'.join(current_content).strip()
Body(cc) == Strip(Join(cc))

(* ----------------------------- session state --------------------------- *)

\* The session state after the first run of the script's top level, with no
\* button pressed yet and nothing edited.
SessionInit ==
    /\ generated_lessons = <<>>
    /\ current_lesson = None
    /\ current_view = "edit"
    /\ generate_outcome = None
    /\ regenerate_outcome = None
    /\ edit = None

(* ------------------------ parse_lesson_sections ------------------------ *)

\* if current_section: sections[current_section] = '\n'.join(...).strip()
CommitOnHeader(d, cs, cc) ==
    IF Truthy(cs) THEN DictSet(d, cs[1], Body(cc)) ELSE d

\* A plausible slip: the commit after the loop does not test current_content.
CommitLastUnguarded(d, cs, cc) ==
    IF Truthy(cs) THEN DictSet(d, cs[1], Body(cc)) ELSE d

\* if current_section and current_content: sections[current_section] = ...
CommitLast(d, cs, cc) ==
    IF Truthy(cs) /\ cc /= <<>> THEN DictSet(d, cs[1], Body(cc)) ELSE d

\* current_section = line.strip()
Label(line) == <<Strip(line)>>

\* A plausible slip: the test for an open section is left out.
AppendsContentNoSection(cs, line) == Strip(line) /= <<>>

\* elif current_section and line.strip():
AppendsContent(cs, line) == Truthy(cs) /\ Strip(line) /= <<>>

\* A plausible slip: the line is appended untrimmed.
ContentPieceRaw(line) == line

\* current_content.append(line.strip())
ContentPiece(line) == Strip(line)

\* One iteration of the loop on a line that holds a header.
ScanHeader ==
    /\ pc = "scan"
    /\ i <= Len(lines)
    /\ IsHeaderLine(lines[i])
    /\ sections' = CommitOnHeader(sections, current_section, current_content)
    /\ current_section' = Label(lines[i])
    /\ current_content' = <<>>
    /\ i' = i + 1
    /\ UNCHANGED <<content, lines, pc, parsed, round, app>>

\* One iteration on a non-blank line inside a section.
ScanContent ==
    /\ pc = "scan"
    /\ i <= Len(lines)
    /\ ~IsHeaderLine(lines[i])
    /\ AppendsContent(current_section, lines[i])
    /\ current_content' = Append(current_content, ContentPiece(lines[i]))
    /\ i' = i + 1
    /\ UNCHANGED <<content, lines, sections, current_section, pc, parsed, round,
                   app>>

\* One iteration on a line that is dropped: blank, or before the first header.
ScanSkip ==
    /\ pc = "scan"
    /\ i <= Len(lines)
    /\ ~IsHeaderLine(lines[i])
    /\ ~AppendsContent(current_section, lines[i])
    /\ i' = i + 1
    /\ UNCHANGED <<content, lines, sections, current_section, current_content,
                   pc, parsed, round, app>>

\* After the loop: the last section, then return sections.
Finish ==
    /\ pc = "scan"
    /\ i > Len(lines)
    /\ sections' = CommitLast(sections, current_section, current_content)
    /\ pc' = "done"
    /\ UNCHANGED <<content, lines, i, current_section, current_content,
                   parsed, round, app>>

(* ----------------------------- reconstruction -------------------------- *)

\* for s, c in sections.items(): updated_content.extend([s, c.strip(), ""])
RECURSIVE UpdatedContent(_)
UpdatedContent(d) ==
    IF d = <<>> THEN <<>>
    ELSE <<d[1].key, Strip(d[1].value), <<>> >> \o UpdatedContent(Tail(d))

\* lesson_data['content'] = '\n'.join(updated_content)
Serialize(d) == Join(UpdatedContent(d))

\* The content is rebuilt from the parsed sections and the rerun parses it.
Reconstruct ==
    /\ pc = "done"
    /\ round < MaxRounds
    /\ content' = Serialize(sections)
    /\ parsed' = sections
    /\ lines' = Split(content')
    /\ i' = 1
    /\ sections' = <<>>
    /\ current_section' = None
    /\ current_content' = <<>>
    /\ pc' = "scan"
    /\ round' = round + 1
    /\ UNCHANGED app

(* ------------------------------ inputs --------------------------------- *)

\* The lines the enumerated inputs are made of.
LineSet ==
    { <<>>,
      <<SP>>,
      <<SP, "a">>,
      <<"overview:">>,
      <<"Overview:">>,
      <<SP, "Overview:">>,
      <<SP, "a", "Overview:", "b">>,
      <<"Learning Objectives:">> }

InputLines == UNION { [1..n -> LineSet] : n \in 1..MaxLines }

\* The state on entry to the loop of parse_lesson_sections(text).
Entry(text) ==
    /\ content = text
    /\ lines = Split(text)
    /\ i = 1
    /\ sections = <<>>
    /\ current_section = None
    /\ current_content = <<>>
    /\ pc = "scan"
    /\ parsed = <<>>
    /\ round = 0

Init == SessionInit /\ \E ls \in InputLines : Entry(Join(ls))

Next == ScanHeader \/ ScanContent \/ ScanSkip \/ Finish \/ Reconstruct

Spec == Init /\ [][Next]_vars

(* ------------------- inputs that hold all nine headers ----------------- *)

NumHeaders == Len(SECTION_HEADERS)

\* The header list rotated by r places, forwards or backwards.
Order(r, backwards) ==
    [k \in 1..NumHeaders |->
        LET j == ((k - 1 + r) % NumHeaders) + 1
        IN  SECTION_HEADERS[IF backwards THEN NumHeaders + 1 - j ELSE j]]

BlockKinds == {"plain", "spaced", "embedded", "repeated", "empty"}

\* The lines of one section of a generated text.
Block(h, kind) ==
    CASE kind = "plain"    -> << <<h>>, <<"a">> >>
      [] kind = "spaced"   -> << <<SP, h, SP>>, <<>>, <<SP, "a">>, <<SP>>, <<"b">> >>
      [] kind = "embedded" -> << <<h>>, <<"a">>, <<"a", h, "b">>, <<"b">> >>
      [] kind = "repeated" -> << <<h>>, <<"a">>, <<h>>, <<"b">> >>
      [] kind = "empty"    -> << <<h>> >>

\* A text of nine sections in the given order; section q is of the given
\* kind, the others are plain; text may come before the first header.
RECURSIVE NineBlocks(_, _, _, _)
NineBlocks(order, q, kind, k) ==
    IF k > NumHeaders THEN <<>>
    ELSE Block(order[k], IF k = q THEN kind ELSE "plain")
             \o NineBlocks(order, q, kind, k + 1)

NineInputs ==
    { (IF pre THEN << <<"b">> >> ELSE <<>>) \o NineBlocks(Order(r, bw), q, kind, 1) :
        r \in 0..(NumHeaders - 1), bw \in BOOLEAN, q \in 1..NumHeaders,
        kind \in BlockKinds, pre \in BOOLEAN }

InitNine == SessionInit /\ \E ls \in NineInputs : Entry(Join(ls))

SpecNine == InitNine /\ [][Next]_vars

(* --------------------------- the generation calls ---------------------- *)

\* What a call returns or raises: raised is "" when the call returns.
Returned(v) == [raised |-> "", value |-> v]

Raised(e) == [raised |-> e, value |-> None]

\* The parameters of generate_lesson_plan.
GenerateParams ==
    { "grade_level", "subject_area", "specific_topic", "duration",
      "objectives", "materials_budget" }

\* The names the prompt f-string of generate_lesson_plan reads.
GeneratePromptNames ==
    { "grade_level", "subject_area", "specific_topic", "delivery_timeline",
      "objectives", "materials_budget" }

\* The names bound at the top level of the script.
ModuleNames ==
    { "st", "genai", "datetime", "json", "GRADE_LEVELS", "STEM_AREAS",
      "DELIVERY_OPTIONS", "generate_lesson_plan", "regenerate_section",
      "parse_lesson_sections", "display_lesson_plan_view",
      "display_lesson_plan_edit", "main" }

\* The keys of the context that display_lesson_plan_edit passes.
RegenerateContextKeys ==
    { "grade_level", "subject_area", "specific_topic", "delivery_timeline" }

\* The keys of context the prompt f-string of regenerate_section reads.
RegeneratePromptKeys ==
    { "grade_level", "subject_area", "specific_topic", "duration" }

\* What the service answers to a request: None when the request fails (the
\* call raises inside the try), else <<text>>.
Replies == { None, << <<"b">> >>, << <<"Overview:", NL, "a">> >> }

\* generate_lesson_plan: the prompt is built before the try, so a name it
\* reads that is neither a parameter nor a module name raises NameError; in
\* the try, a failed request gives st.error and None, else response.text.
generate_lesson_plan(reply) ==
    IF ~(GeneratePromptNames \subseteq (GenerateParams \cup ModuleNames))
    THEN Raised("NameError")
    ELSE IF reply = None THEN Returned(None)
    ELSE Returned(reply)

\* regenerate_section: the prompt is built before the try, so a key it reads
\* that the context lacks raises KeyError; in the try, a failed request gives
\* st.error and None, else response.text.strip().
regenerate_section(context_keys, reply) ==
    IF ~(RegeneratePromptKeys \subseteq context_keys)
    THEN Raised("KeyError")
    ELSE IF reply = None THEN Returned(None)
    ELSE Returned(<<Strip(reply[1])>>)

\* The text of an optional string.
TextOf(v) == IF v = None THEN <<>> ELSE v[1]

(* ------------------------------- main ---------------------------------- *)

GRADE_LEVELS == {"K-2", "3-5", "6-8", "9-12"}

\* new_lesson = {...}: the fields the model follows.
NewLesson(grade_level, text) == [grade_level |-> grade_level, content |-> text]

\* The parse that the display of lesson text starts with.
Display(text) ==
    /\ content' = text
    /\ lines' = Split(text)
    /\ i' = 1
    /\ sections' = <<>>
    /\ current_section' = None
    /\ current_content' = <<>>
    /\ pc' = "scan"

\* A plausible slip: the result is stored whatever the call did.
StoresUnchecked(r) == TRUE

\* if lesson_plan: / if new_content: reached only when the call returned.
Stores(r) == r.raised = "" /\ Truthy(r.value)

\* The Generate Lesson Plan button.  An exception of the call ends the run
\* of the script; a returned None skips the if; a text becomes the current
\* lesson, a copy of it is appended to the history, and the lesson is shown.
PressGenerate ==
    /\ pc = "done"
    /\ \E reply \in Replies :
           LET r == generate_lesson_plan(reply)
           IN  /\ generate_outcome' =
                      <<[reply |-> reply, raised |-> r.raised, value |-> r.value]>>
               /\ IF Stores(r)
                  THEN \E grade_level \in GRADE_LEVELS :
                       LET new_lesson == NewLesson(grade_level, TextOf(r.value))
                       IN  /\ current_lesson' = <<new_lesson>>
                           /\ generated_lessons' =
                                  Append(generated_lessons, new_lesson)
                           /\ Display(new_lesson.content)
                           /\ parsed' = <<>>
                           /\ edit' = None
                           /\ UNCHANGED <<round, current_view, regenerate_outcome>>
                  ELSE UNCHANGED <<content, lines, i, sections, current_section,
                                   current_content, pc, parsed, round,
                                   current_lesson, generated_lessons,
                                   current_view, regenerate_outcome, edit>>

\* The Display Mode radio: current_view = view_mode.lower().
ToggleView ==
    /\ pc = "done"
    /\ current_view' = IF current_view = "edit" THEN "view" ELSE "edit"
    /\ UNCHANGED <<content, lines, i, sections, current_section,
                   current_content, pc, parsed, round, current_lesson,
                   generated_lessons, generate_outcome, regenerate_outcome, edit>>

\* A button of the lesson history: current_lesson = lesson.copy(), rerun.  The
\* history is shown only under "if st.session_state.current_lesson:".
SelectHistory ==
    /\ pc = "done"
    /\ current_lesson /= None
    /\ \E idx \in DOMAIN generated_lessons :
           /\ current_lesson' = <<generated_lessons[idx]>>
           /\ Display(generated_lessons[idx].content)
    /\ parsed' = <<>>
    /\ edit' = None
    /\ UNCHANGED <<round, generated_lessons, current_view, generate_outcome,
                   regenerate_outcome>>

(* ----------------------- display_lesson_plan_edit ---------------------- *)

\* Number of rebuilds of the content followed in the edit view.
MaxEdits == 1

\* The texts typed into a text area.
EditTexts ==
    { <<>>,
      <<"b">>,
      <<"b", NL, NL, SP, "b">>,
      <<"Learning Objectives:", NL, "b">> }

\* sections[section] = text, the content rebuilt from the sections, and the
\* next run parsing it.  lesson_data is the current lesson when main calls.
Rebuild(e, text) ==
    LET updated == DictSet(sections, sections[e].key, text)
    IN  /\ round < MaxEdits
        /\ Display(Serialize(updated))
        /\ parsed' = updated
        /\ round' = round + 1
        /\ edit' = <<[key |-> sections[e].key, text |-> text, before |-> sections]>>
        /\ current_lesson' =
               IF current_lesson = None THEN None
               ELSE <<[current_lesson[1] EXCEPT !.content = Serialize(updated)]>>

\* A text area whose text differs from the parsed body.
EditSection ==
    /\ pc = "done"
    /\ current_view = "edit"
    /\ \E e \in DOMAIN sections, text \in EditTexts :
           /\ text /= sections[e].value
           /\ Rebuild(e, text)
    /\ UNCHANGED <<generated_lessons, current_view, generate_outcome,
                   regenerate_outcome>>

\* The Regenerate button of a section.  An exception of the call ends the run
\* of the script; a returned None skips the if.
RegenerateSection ==
    /\ pc = "done"
    /\ current_view = "edit"
    /\ \E e \in DOMAIN sections, reply \in Replies :
           LET r == regenerate_section(RegenerateContextKeys, reply)
           IN  /\ regenerate_outcome' =
                      <<[section |-> sections[e].key, reply |-> reply,
                         raised |-> r.raised, value |-> r.value]>>
               /\ IF Stores(r)
                  THEN Rebuild(e, TextOf(r.value))
                  ELSE UNCHANGED <<content, lines, i, sections, current_section,
                                   current_content, pc, parsed, round,
                                   current_lesson, edit>>
    /\ UNCHANGED <<generated_lessons, current_view, generate_outcome>>

\* The handlers of main, and display_lesson_plan_edit on a lesson_data whose
\* content is one of the enumerated inputs.  SelectHistory is never enabled
\* (generated_lessons stays empty) and is left out.
NextApp ==
    \/ ScanHeader \/ ScanContent \/ ScanSkip \/ Finish
    \/ EditSection \/ RegenerateSection \/ PressGenerate \/ ToggleView

\* The lines the lesson texts of the edit view are made of.
LessonLineSet ==
    { <<>>, <<SP, "a">>, <<"Overview:">>, <<"Learning Objectives:">> }

LessonInputLines == UNION { [1..n -> LessonLineSet] : n \in 1..MaxLines }

InitApp == SessionInit /\ \E ls \in LessonInputLines : Entry(Join(ls))

SpecApp == InitApp /\ [][NextApp]_vars

(* ------------------- the input, as the properties read it -------------- *)

Headers == { SECTION_HEADERS[h] : h \in DOMAIN SECTION_HEADERS }

HasHeader(line) == \E k \in DOMAIN line : line[k] \in Headers

NonSpace(line) == { k \in DOMAIN line : line[k] \notin {SP, NL} }

Blank(line) == NonSpace(line) = {}

Least(S) == CHOOSE x \in S : \A y \in S : x <= y

Greatest(S) == CHOOSE x \in S : \A y \in S : y <= x

\* The line without the whitespace around it.
Trim(line) ==
    IF Blank(line) THEN <<>>
    ELSE SubSeq(line, Least(NonSpace(line)), Greatest(NonSpace(line)))

\* The indices of the lines that hold a header.
HeaderIdx(ls) == { k \in DOMAIN ls : HasHeader(ls[k]) }

\* The index of the next header line after line k, or one past the end.
NextHeader(ls, k) ==
    IF \E j \in HeaderIdx(ls) : j > k
    THEN Least({ j \in HeaderIdx(ls) : j > k })
    ELSE Len(ls) + 1

\* The trimmed non-blank lines after header line k, up to the next header.
ContentOf(ls, k) ==
    LET between == SubSeq(ls, k + 1, NextHeader(ls, k) - 1)
        kept == SelectSeq(between, LAMBDA l : ~Blank(l))
    IN  [j \in 1..Len(kept) |-> Trim(kept[j])]

\* The header lines that carry the label.
Occurrences(ls, label) == { k \in HeaderIdx(ls) : Trim(ls[k]) = label }

\* The lines of a body: none for the empty body.
BodyLines(body) == IF body = <<>> THEN <<>> ELSE Split(body)

(* ------------------------------- claims -------------------------------- *)

\* C1: in the returned map, a label is a key only if some header line that
\* carries it is followed by at least one non-blank content line before the
\* next header line or the end of the input: a header with nothing under it
\* is left out of the map.
C1_EmptySectionOmitted ==
    pc = "done" =>
        \A k \in HeaderIdx(lines) :
            ContentOf(lines, k) = <<>> =>
                \/ Trim(lines[k]) \notin Keys(sections)
                \/ \E k2 \in Occurrences(lines, Trim(lines[k])) :
                       ContentOf(lines, k2) /= <<>>

\* C2: the map parsed from the reconstruction of a parsed map M has the
\* labels and the bodies of M, in the same order, on the first round trip and
\* on every later one.
C2_RoundTripStable ==
    (pc = "done" /\ round >= 1) => sections = parsed

\* The labels that more than one header line of the input carries.
RepeatedLabels(ls) ==
    { Trim(ls[k]) : k \in { j \in HeaderIdx(ls) :
                              Cardinality(Occurrences(ls, Trim(ls[j]))) > 1 } }

LastOccurrence(ls, label) == Greatest(Occurrences(ls, label))

\* No two items of the dict have the same key.
UniqueKeys(d) == \A a, b \in DOMAIN d : d[a].key = d[b].key => a = b

OpensSection ==
    /\ current_section' = <<Trim(lines[i])>>
    /\ current_content' = <<>>

\* C5: a scanned line opens a new section exactly when one of the nine header
\* strings occurs in it, anywhere and in the same case, and the key of the new
\* section is the whole line trimmed, not the header alone.
C5_SubstringMatchWholeLineKey ==
    [][ (pc = "scan" /\ i <= Len(lines) /\ i' = i + 1) =>
            /\ HasHeader(lines[i]) <=> OpensSection
            /\ ~HasHeader(lines[i]) => current_section' = current_section
      ]_vars

\* The first line of the input is text around a header, and the section it
\* opened is keyed by that text.
C5_Witness ==
    /\ round = 0
    /\ i = 2
    /\ lines[1] = <<SP, "a", "Overview:", "b">>
    /\ current_section = << <<"a", "Overview:", "b">> >>

\* A string with no whitespace at either end and no empty line in it.
CleanBody(body) ==
    \A k \in DOMAIN BodyLines(body) :
        /\ BodyLines(body)[k] /= <<>>
        /\ Trim(BodyLines(body)[k]) = BodyLines(body)[k]

\* C6: every body of the returned map is the newline-join, in order, of the
\* trimmed non-blank lines between a header line carrying its label and the
\* next header line or the end of the input; no line of a body is empty or
\* has whitespace around it.
C6_BodyIsJoinedTrimmedLines ==
    pc = "done" =>
        \A e \in DOMAIN sections :
            /\ \E k \in Occurrences(lines, sections[e].key) :
                   sections[e].value = Join(ContentOf(lines, k))
            /\ CleanBody(sections[e].value)

\* A body of two lines whose source lines had whitespace around them and a
\* blank line between them.
C6_Witness ==
    /\ pc = "done"
    /\ round = 0
    /\ lines = << <<"Overview:">>, <<SP, "a">>, <<SP>>, <<"overview:">> >>
    /\ sections = << [key |-> <<"Overview:">>,
                      value |-> <<"a", NL, "overview:">>] >>

\* C7: on an input in which no line holds a header string, the scan commits
\* nothing, opens no section, can always take its next step, and returns the
\* empty map.
C7_NoHeaderEmptyMap ==
    HeaderIdx(lines) = {} =>
        /\ sections = <<>>
        /\ current_section = None
        /\ current_content = <<>>
        /\ pc = "scan" => ENABLED (ScanSkip \/ Finish)

\* A parse of a header-less input with non-blank lines has returned.
C7_Witness ==
    /\ pc = "done"
    /\ round = 0
    /\ HeaderIdx(lines) = {}
    /\ \E k \in DOMAIN lines : ~Blank(lines[k])
    /\ sections = <<>>

FirstOccurrence(ls, label) == Least(Occurrences(ls, label))

\* C8: the keys of the map are in the order of the first header line that
\* carries each of them, also for a key whose entry a later header line
\* overwrote.
C8_KeysInFirstOccurrenceOrder ==
    \A a, b \in DOMAIN sections :
        a < b =>
            /\ Occurrences(lines, sections[a].key) /= {}
            /\ Occurrences(lines, sections[b].key) /= {}
            /\ FirstOccurrence(lines, sections[a].key)
                   < FirstOccurrence(lines, sections[b].key)

\* The first key of a returned map of two keys was overwritten by a header
\* line that comes after the header line of the second key.
C8_Witness ==
    /\ pc = "done"
    /\ round = 0
    /\ Len(sections) = 2
    /\ LastOccurrence(lines, sections[1].key)
           > FirstOccurrence(lines, sections[2].key)
    /\ sections[1].value
           = Join(ContentOf(lines, LastOccurrence(lines, sections[1].key)))
    /\ sections[1].value /= <<>>

\* The lines scanned so far that may be in a body: after the first header
\* line, holding no header, and not blank.
Eligible(ls, upto) ==
    { j \in 1..upto :
        /\ \E h \in HeaderIdx(ls) : h < j
        /\ ~HasHeader(ls[j])
        /\ ~Blank(ls[j]) }

RECURSIVE CommittedLines(_)
CommittedLines(d) ==
    IF d = <<>> THEN <<>>
    ELSE BodyLines(d[1].value) \o CommittedLines(Tail(d))

\* Every line of every body: the committed ones and, while the loop runs, the
\* ones being accumulated.
AllBodyLines ==
    CommittedLines(sections) \o (IF pc = "scan" THEN current_content ELSE <<>>)

\* C9: at every step of the scan and in the result, no line of an accumulated
\* or committed body holds a header string, every such line is the trimmed
\* text of a scanned line that comes after the first header line, and the
\* bodies together hold no more lines than there are such scanned lines, so
\* that no input line is in two bodies and a line before the first header is
\* in none.
C9_BodiesHoldNoHeaderNoPreamble ==
    /\ \A k \in DOMAIN AllBodyLines :
           /\ ~HasHeader(AllBodyLines[k])
           /\ \E j \in Eligible(lines, i - 1) : AllBodyLines[k] = Trim(lines[j])
    /\ Len(AllBodyLines) <= Cardinality(Eligible(lines, i - 1))

\* A parse has returned a non-empty body for an input whose first line is
\* text before any header and whose last line is a header.
C9_Witness ==
    /\ pc = "done"
    /\ round = 0
    /\ ~Blank(lines[1])
    /\ ~HasHeader(lines[1])
    /\ HasHeader(lines[Len(lines)])
    /\ \E e \in DOMAIN sections : sections[e].value /= <<>>

\* The input of the scenario: preamble text, a header, and a final newline.
TrailingHeaderInput == Join(<< <<SP, "a">>, <<"Overview:">>, <<>> >>)

\* d2 is d with the value of key set, every other item as in d.
SetsOnly(d, d2, key, value) ==
    /\ key \in Keys(d2)
    /\ Value(d2, key) = value
    /\ UniqueKeys(d2)
    /\ Keys(d2) = Keys(d) \cup {key}
    /\ \A e \in DOMAIN d : d[e].key /= key => d2[e] = d[e]

\* C10: the step that ends the scan commits the last open section if and only
\* if a header line was seen and a non-blank content line follows the last
\* one; otherwise it leaves the map as it is, so that a trailing header adds
\* no entry and changes none, and the scenario input parses to the empty map.
C10_LastSectionCommittedIffContent ==
    [][ (pc = "scan" /\ pc' = "done") =>
            /\ IF /\ HeaderIdx(lines) /= {}
                  /\ ContentOf(lines, Greatest(HeaderIdx(lines))) /= <<>>
               THEN SetsOnly(sections, sections',
                             Trim(lines[Greatest(HeaderIdx(lines))]),
                             Join(ContentOf(lines, Greatest(HeaderIdx(lines)))))
               ELSE sections' = sections
            /\ content = TrailingHeaderInput => sections' = <<>>
      ]_vars

\* A parse has returned on an input that ends with a header with nothing
\* under it, and the map holds the section committed before it.
C10_Witness ==
    /\ pc = "done"
    /\ round = 0
    /\ HasHeader(lines[Len(lines)])
    /\ \E e \in DOMAIN sections : sections[e].value /= <<>>
    /\ Trim(lines[Len(lines)]) \notin Keys(sections)

\* The scenario input has been parsed to the empty map.
C10_ScenarioReached ==
    /\ pc = "done"
    /\ content = TrailingHeaderInput
    /\ sections = <<>>

\* Every one of the nine header strings occurs in some line of the input.
AllHeadersPresent(ls) ==
    \A h \in Headers : \E k \in DOMAIN ls : \E c \in DOMAIN ls[k] : ls[k][c] = h

\* Every line that holds a header is followed by a non-blank line before the
\* next such line.
EveryHeaderHasContent(ls) == \A k \in HeaderIdx(ls) : ContentOf(ls, k) /= <<>>

\* The trimmed header lines, each once, in the order of their first occurrence.
RECURSIVE LabelsFrom(_, _, _)
LabelsFrom(ls, k, seen) ==
    IF k > Len(ls) THEN <<>>
    ELSE IF HasHeader(ls[k]) /\ Trim(ls[k]) \notin seen
         THEN <<Trim(ls[k])>> \o LabelsFrom(ls, k + 1, seen \cup {Trim(ls[k])})
         ELSE LabelsFrom(ls, k + 1, seen)

Labels(ls) == LabelsFrom(ls, 1, {})

KeySeq(d) == [e \in DOMAIN d |-> d[e].key]

\* C3 as stated: on a text that holds all nine header strings, each followed
\* by at least one non-blank line, the map has exactly nine entries, in the
\* order in which the headers appear.
C3_NineHeadersNineEntries ==
    (pc = "done" /\ AllHeadersPresent(lines) /\ EveryHeaderHasContent(lines)) =>
        /\ Len(sections) = NumHeaders
        /\ KeySeq(sections) = Labels(lines)

\* C3 (amended): on a text that holds all nine header strings, in which the
\* lines holding a header string have exactly nine different trimmed texts
\* and each such line is followed by at least one non-blank line before the
\* next such line, the map has exactly nine entries, keyed by these lines in
\* the order of their first appearance.
C3_NineHeaderLinesNineEntries ==
    ( /\ pc = "done"
      /\ AllHeadersPresent(lines)
      /\ EveryHeaderHasContent(lines)
      /\ Len(Labels(lines)) = NumHeaders ) =>
        /\ Len(sections) = NumHeaders
        /\ KeySeq(sections) = Labels(lines)

\* A parse has returned nine entries for a text of nine sections that does
\* not start with the first header of the list and has a header line with
\* whitespace around it.
C3_Witness ==
    /\ pc = "done"
    /\ round = 0
    /\ AllHeadersPresent(lines)
    /\ EveryHeaderHasContent(lines)
    /\ Len(Labels(lines)) = NumHeaders
    /\ Len(sections) = NumHeaders
    /\ sections[1].key /= <<"Overview:">>
    /\ \E k \in HeaderIdx(lines) : Trim(lines[k]) /= lines[k]

\* C11: in the edit view, after the body of one section was edited, the
\* parse of the rebuilt content has the labels of the map before the edit, in
\* the same order, with the body of the edited label equal to the new text
\* and every other body as before; and a press of Regenerate for which the
\* service has a text rebuilds the content for that section in the same way.
C11_EditReplacesOnlyEditedBody ==
    /\ (pc = "done" /\ edit /= None) =>
           /\ KeySeq(sections) = KeySeq(edit[1].before)
           /\ \A e \in DOMAIN sections :
                  sections[e].value =
                      IF sections[e].key = edit[1].key
                      THEN edit[1].text
                      ELSE edit[1].before[e].value
    /\ (regenerate_outcome /= None /\ Truthy(regenerate_outcome[1].reply)) =>
           /\ edit /= None
           /\ edit[1].key = regenerate_outcome[1].section
           /\ edit[1].text = Strip(regenerate_outcome[1].reply[1])

\* C12: no step removes or changes an entry of generated_lessons; a press of
\* Generate for which the service has a text appends exactly one entry, equal
\* to the new current lesson, whose content is that text; every other step,
\* an edit of the content included, leaves generated_lessons as it is.
C12_HistoryAppendOnly ==
    [][ /\ Len(generated_lessons') >= Len(generated_lessons)
        /\ SubSeq(generated_lessons', 1, Len(generated_lessons)) = generated_lessons
        /\ (generate_outcome' /= generate_outcome
              /\ Truthy(generate_outcome'[1].reply)) =>
               /\ Len(generated_lessons') = Len(generated_lessons) + 1
               /\ current_lesson' /= None
               /\ generated_lessons'[Len(generated_lessons')] = current_lesson'[1]
               /\ current_lesson'[1].content = generate_outcome'[1].reply[1]
        /\ generate_outcome' = generate_outcome =>
               generated_lessons' = generated_lessons
      ]_vars

\* The call of the last press gave no text: it raised, or returned None or "".
Failed(outcome) == outcome[1].raised /= "" \/ ~Truthy(outcome[1].value)

====
